---- MODULE Spec2Model ----
(***************************************************************************)
(* The-GridCracker: the Sudoku engine of gridcracker.py as a state         *)
(* machine.  Board objects live in a heap (so that copy() and aliasing     *)
(* are visible), the recursive searches _solve, _count and _fill_board     *)
(* run on an explicit stack of frames, and the module `random` is a        *)
(* deterministic stream whose seed is drawn at construction.               *)
(***************************************************************************)
EXTENDS Integers, Sequences, FiniteSets, TLC

VARIABLES
  mode,        \* "solver": a SudokuSolver/CountingSolver session; "gen": a SudokuGenerator
  pc,          \* position of the running method
  heap,        \* heap[ref] is the .grid of the Board object (or list) ref
  boardRef,    \* the object self.board refers to
  stack,       \* pending frames of the running recursive search, innermost last
  count,       \* CountingSolver.count
  limit,       \* CountingSolver.limit
  result,      \* what the last finished method returned
  op,          \* the method (and limit argument) of the call in progress / last finished
  calls,       \* number of finished solve/count_solutions calls on this solver object
  first,       \* op and result of the first finished call on this solver object
  difficultyArg, \* the difficulty argument given to SudokuGenerator(...)
  difficulty,  \* SudokuGenerator.difficulty
  rng,         \* state of the random stream
  removals,    \* local `removals` of _unique_remove
  pick,        \* local (r, c) of the current _unique_remove iteration
  backup,      \* local `backup` of the current _unique_remove iteration
  iters,       \* iterations of the _unique_remove loop so far
  rejected,    \* cells whose removal was reverted since the puzzle last changed
  input,       \* the grid the running search (_solve, _count, _fill_board) was entered with
  arg          \* arguments (r, c, v) of the Board.is_valid call whose result is in hand

vars == <<mode, pc, heap, boardRef, stack, count, limit, result, op, calls, first,
          difficultyArg, difficulty, rng, removals, pick, backup, iters, rejected,
          input, arg>>

(***************************************************************************)
(* Bounds of the model.                                                    *)
(***************************************************************************)
MaxBlanks == 4      \* input grids blank a subset of the first MaxBlanks pool cells
MaxLimit == 2       \* count_solutions is called with limit in 0..MaxLimit
MaxCalls == 2       \* calls made on one solver object
MaxSeeds == 2       \* number of random streams a generator is run with
MaxIters == 600     \* iterations of the removal loop that are followed
MaxFillSeeds == 20  \* number of random streams _generate_full is run with
MaxClueCells == 2   \* sparse boards hold clues in the first MaxClueCells clue cells
MaxValue == 2       \* a clue cell of a sparse board holds a value in 0..MaxValue

(***************************************************************************)
(* Board                                                                   *)
(***************************************************************************)
SIZE == 9

Idx == 0 .. (SIZE - 1)

None == <<>>

\* Board.__init__ without a grid: all zeros
EmptyGrid == [r \in Idx |-> [c \in Idx |-> 0]]

Get(b, r, c) == b[r][c]

Set(b, r, c, v) == [b EXCEPT ![r][c] = v]

Clear(b, r, c) == [b EXCEPT ![r][c] = 0]

\* the lists row_values, col_values and box_values as the values they hold
RowValues(b, r) == {b[r][c] : c \in Idx}

ColValues(b, c) == {b[r][c] : r \in Idx}

BoxValues(b, r, c) ==
  LET br == (r \div 3) * 3
      bc == (c \div 3) * 3
  IN  {b[rr][cc] : rr \in br .. (br + 2), cc \in bc .. (bc + 2)}

\* v in self.row_values(r)
InRow(b, r, v) == \E c \in Idx : b[r][c] = v

\* v in self.col_values(c)
InCol(b, c, v) == \E r \in Idx : b[r][c] = v

\* v in self.box_values(r, c)
InBox(b, r, c, v) ==
  LET br == (r \div 3) * 3
      bc == (c \div 3) * 3
  IN  \E rr \in br .. (br + 2), cc \in bc .. (bc + 2) : b[rr][cc] = v

\* faulty variant of IsValid: the cell (r, c) itself is left out of the three tests
IsValidSkipSelf(b, r, c, v) ==
  \A rr \in Idx : \A cc \in Idx :
    (/\ <<rr, cc>> # <<r, c>>
     /\ \/ rr = r
        \/ cc = c
        \/ (rr \div 3 = r \div 3 /\ cc \div 3 = c \div 3)) => b[rr][cc] # v

\* faulty variant of IsValid: the box test is left out
IsValidNoBox(b, r, c, v) == ~InRow(b, r, v) /\ ~InCol(b, c, v)

\* faulty variant of IsValid: the column test is left out
IsValidNoCol(b, r, c, v) == ~InRow(b, r, v) /\ ~InBox(b, r, c, v)

IsValid(b, r, c, v) ==
  IF InRow(b, r, v) THEN FALSE
  ELSE IF InCol(b, c, v) THEN FALSE
  ELSE IF InBox(b, r, c, v) THEN FALSE
  ELSE TRUE

\* the smallest element of a nonempty set of numbers
First(S) == CHOOSE k \in S : \A j \in S : k <= j

\* faulty variant of FindEmpty: the first cell, blank or not
FindEmptyFirstCell(b) == <<0, 0>>

\* first empty cell in row-major order, or None
FindEmpty(b) ==
  LET rows == {r \in Idx : \E c \in Idx : b[r][c] = 0}
  IN  IF rows = {} THEN None
      ELSE LET r == First(rows)
           IN  <<r, First({c \in Idx : b[r][c] = 0})>>

(***************************************************************************)
(* Objects.  Refs: "caller" is the list the caller passed in, "original"   *)
(* and "work" are the solver's Boards, "full" and "puzzle" the generator's.*)
(***************************************************************************)
Refs == {"caller", "original", "work", "full", "puzzle"}

\* faulty variant of BoardCopy: no new object, the same Board is handed back
BoardCopyAlias(h, src, dst) == [ref |-> src, heap |-> h]

\* Board.copy(): a new Board (held at ref dst) with the rows copied
BoardCopy(h, src, dst) == [ref |-> dst, heap |-> [h EXCEPT ![dst] = h[src]]]

\* the candidate loop of a frame: the first index j >= i of nums whose value
\* is valid at (r, c), or Len(nums) + 1 when the loop runs out
RECURSIVE NextValid(_, _, _, _, _)
NextValid(b, r, c, nums, i) ==
  IF i > Len(nums) THEN i
  ELSE IF IsValid(b, r, c, nums[i]) THEN i
  ELSE NextValid(b, r, c, nums, i + 1)

\* range(1, 10)
Ascending == <<1, 2, 3, 4, 5, 6, 7, 8, 9>>

Top == stack[Len(stack)]

Pop == SubSeq(stack, 1, Len(stack) - 1)

Board == heap[boardRef]

\* what a method returned: tag "grid" (a list of lists), "None", "int" or "pending"
RetGrid(g) == [tag |-> "grid", grid |-> g, n |-> 0]

RetNone == [tag |-> "None", grid |-> EmptyGrid, n |-> 0]

RetInt(k) == [tag |-> "int", grid |-> EmptyGrid, n |-> k]

Pending == [tag |-> "pending", grid |-> EmptyGrid, n |-> 0]

\* a returned bool (True is 1, False is 0)
RetBool(t) == [tag |-> "bool", grid |-> EmptyGrid, n |-> IF t THEN 1 ELSE 0]

NoCall == [name |-> "none", limit |-> 0]

(***************************************************************************)
(* Input grids of the solver sessions: a solved grid (the one solve()      *)
(* returns for the all-zero grid) with a subset of the pool cells blanked  *)
(* and at most one other pool cell overwritten with a wrong value.         *)
(***************************************************************************)
Base ==
  [r \in Idx |->
     [c \in Idx |->
        << <<1, 2, 3, 4, 5, 6, 7, 8, 9>>,
           <<4, 5, 6, 7, 8, 9, 1, 2, 3>>,
           <<7, 8, 9, 1, 2, 3, 4, 5, 6>>,
           <<2, 1, 4, 3, 6, 5, 8, 9, 7>>,
           <<3, 6, 5, 8, 9, 7, 2, 1, 4>>,
           <<8, 9, 7, 2, 1, 4, 3, 6, 5>>,
           <<5, 3, 1, 6, 4, 2, 9, 7, 8>>,
           <<6, 4, 2, 9, 7, 8, 5, 3, 1>>,
           <<9, 7, 8, 5, 3, 1, 6, 4, 2>> >>[r + 1][c + 1]]]

PoolSeq ==
  << <<0, 0>>, <<0, 1>>, <<3, 0>>, <<3, 1>>, <<0, 4>>, <<0, 5>>, <<3, 4>>, <<3, 5>> >>

PoolCells == {PoolSeq[i] : i \in 1 .. MaxBlanks}

Blanked(g, S) == [r \in Idx |-> [c \in Idx |-> IF <<r, c>> \in S THEN 0 ELSE g[r][c]]]

InputGrids ==
  {Blanked(Base, S) : S \in SUBSET PoolCells}
    \cup {Set(Blanked(Base, S), p[1], p[2], v) :
            S \in SUBSET PoolCells, p \in PoolCells, v \in 1 .. 9}

Difficulties == {"Easy", "Medium", "Hard"}

(***************************************************************************)
(* SudokuSolver / CountingSolver                                           *)
(***************************************************************************)
\* SudokuSolver.__init__ (and CountingSolver.__init__, which adds count and limit)
InitSolver ==
  /\ mode = "solver"
  /\ pc = "idle"
  /\ \E g \in InputGrids :
       LET h0 == [ref \in Refs |-> IF ref \in {"caller", "original"} THEN g ELSE EmptyGrid]
           cp == BoardCopy(h0, "original", "work")
       IN  /\ heap = cp.heap
           /\ boardRef = cp.ref
  /\ stack = <<>>
  /\ count = 0
  /\ limit = 2
  /\ result = Pending
  /\ op = NoCall
  /\ calls = 0
  /\ first = [op |-> NoCall, result |-> Pending]
  /\ difficultyArg = "" /\ difficulty = "" /\ rng = 0
  /\ removals = 0 /\ pick = <<0, 0>> /\ backup = 0 /\ iters = 0 /\ rejected = {}
  /\ input = EmptyGrid
  /\ arg = <<0, 0, 0>>

genVars == <<difficultyArg, difficulty, rng, removals, pick, backup, iters, rejected>>

\* solve(): self.board = self.original.copy(), then _solve() is entered
CallSolve ==
  /\ mode = "solver" /\ pc = "idle" /\ calls < MaxCalls
  /\ LET cp == BoardCopy(heap, "original", "work")
     IN  heap' = cp.heap /\ boardRef' = cp.ref
  /\ pc' = "solve"
  /\ stack' = <<>>
  /\ op' = [name |-> "solve", limit |-> 0]
  /\ result' = Pending
  /\ input' = heap'[boardRef']
  /\ UNCHANGED <<mode, arg, count, limit, calls, first, genVars>>

\* one invocation of _solve, up to its recursive call or its return
SolveEnter ==
  /\ pc = "solve"
  /\ LET e == FindEmpty(Board)
     IN  IF e = None
         THEN /\ pc' = "solve_true"
              /\ UNCHANGED <<heap, stack>>
         ELSE LET j == NextValid(Board, e[1], e[2], Ascending, 1)
              IN  IF j > Len(Ascending)
                  THEN /\ pc' = "solve_false"
                       /\ UNCHANGED <<heap, stack>>
                  ELSE /\ heap' = [heap EXCEPT ![boardRef] = Set(Board, e[1], e[2], Ascending[j])]
                       /\ stack' = Append(stack, [r |-> e[1], c |-> e[2], nums |-> Ascending, i |-> j])
                       /\ pc' = "solve"
  /\ UNCHANGED <<mode, input, arg, boardRef, count, limit, result, op, calls, first, genVars>>

\* the recursive call returned False: clear the cell, go on with the next candidate
SolveBacktrack ==
  /\ pc = "solve_false" /\ stack # <<>>
  /\ LET f == Top
         b1 == Clear(Board, f.r, f.c)
         j == NextValid(b1, f.r, f.c, f.nums, f.i + 1)
     IN  IF j > Len(f.nums)
         THEN /\ heap' = [heap EXCEPT ![boardRef] = b1]
              /\ stack' = Pop
              /\ pc' = "solve_false"
         ELSE /\ heap' = [heap EXCEPT ![boardRef] = Set(b1, f.r, f.c, f.nums[j])]
              /\ stack' = [stack EXCEPT ![Len(stack)].i = j]
              /\ pc' = "solve"
  /\ UNCHANGED <<mode, input, arg, boardRef, count, limit, result, op, calls, first, genVars>>

\* the recursive call returned True: so does the caller
SolveUnwind ==
  /\ pc = "solve_true" /\ stack # <<>>
  /\ stack' = Pop
  /\ UNCHANGED <<mode, input, arg, pc, heap, boardRef, count, limit, result, op, calls, first, genVars>>

Finished(res) ==
  /\ result' = res
  /\ calls' = calls + 1
  /\ first' = IF calls = 0 THEN [op |-> op, result |-> res] ELSE first
  /\ pc' = "idle"

\* solve() returns self.board.as_list() or None
SolveReturn ==
  /\ pc \in {"solve_true", "solve_false"} /\ stack = <<>>
  /\ Finished(IF pc = "solve_true" THEN RetGrid(Board) ELSE RetNone)
  /\ UNCHANGED <<mode, input, arg, heap, boardRef, stack, count, limit, op, genVars>>

\* faulty variant of LimitReached: an off-by-one comparison
LimitReachedStrict(n, L) == n > L

\* self.count >= self.limit
LimitReached(n, L) == n >= L

\* count_solutions(limit): sets limit and count, copies the board, enters _count
CallCount ==
  /\ mode = "solver" /\ pc = "idle" /\ calls < MaxCalls
  /\ \E L \in 0 .. MaxLimit :
       /\ limit' = L
       /\ op' = [name |-> "count_solutions", limit |-> L]
  /\ count' = 0
  /\ LET cp == BoardCopy(heap, "original", "work")
     IN  heap' = cp.heap /\ boardRef' = cp.ref
  /\ pc' = "count"
  /\ stack' = <<>>
  /\ result' = Pending
  /\ input' = heap'[boardRef']
  /\ UNCHANGED <<mode, arg, calls, first, genVars>>

(***************************************************************************)
(* _count on a configuration [pc, board, stack, count]: the working board, *)
(* the pending calls and self.count, with self.limit = L.                  *)
(***************************************************************************)
\* one invocation of _count, up to its recursive call or its return
CountEnterStep(cfg, L) ==
  IF LimitReached(cfg.count, L)
  THEN [cfg EXCEPT !.pc = "count_ret"]
  ELSE LET e == FindEmpty(cfg.board)
       IN  IF e = None
           THEN [cfg EXCEPT !.pc = "count_ret", !.count = cfg.count + 1]
           ELSE LET j == NextValid(cfg.board, e[1], e[2], Ascending, 1)
                IN  IF j > Len(Ascending)
                    THEN [cfg EXCEPT !.pc = "count_ret"]
                    ELSE [cfg EXCEPT
                            !.board = Set(cfg.board, e[1], e[2], Ascending[j]),
                            !.stack = Append(cfg.stack,
                                        [r |-> e[1], c |-> e[2], nums |-> Ascending, i |-> j])]

\* the recursive call returned: clear the cell, stop if the limit is reached,
\* otherwise go on with the next candidate
CountBacktrackStep(cfg, L) ==
  LET f == cfg.stack[Len(cfg.stack)]
      b1 == Clear(cfg.board, f.r, f.c)
      j == NextValid(b1, f.r, f.c, f.nums, f.i + 1)
  IN  IF LimitReached(cfg.count, L) \/ j > Len(f.nums)
      THEN [cfg EXCEPT !.board = b1,
                       !.stack = SubSeq(cfg.stack, 1, Len(cfg.stack) - 1)]
      ELSE [cfg EXCEPT !.pc = "count",
                       !.board = Set(b1, f.r, f.c, f.nums[j]),
                       !.stack = [cfg.stack EXCEPT ![Len(cfg.stack)].i = j]]

\* _count has returned to count_solutions
CountFinished(cfg) == cfg.pc = "count_ret" /\ cfg.stack = <<>>

CountStep(cfg, L) ==
  IF cfg.pc = "count" THEN CountEnterStep(cfg, L) ELSE CountBacktrackStep(cfg, L)

\* the configuration of the running solver object
Config == [pc |-> pc, board |-> Board, stack |-> stack, count |-> count]

Becomes(cfg) ==
  /\ pc' = cfg.pc
  /\ heap' = [heap EXCEPT ![boardRef] = cfg.board]
  /\ stack' = cfg.stack
  /\ count' = cfg.count

CountEnter ==
  /\ pc = "count"
  /\ Becomes(CountEnterStep(Config, limit))
  /\ UNCHANGED <<mode, input, arg, boardRef, limit, result, op, calls, first, genVars>>

CountBacktrack ==
  /\ pc = "count_ret" /\ stack # <<>>
  /\ Becomes(CountBacktrackStep(Config, limit))
  /\ UNCHANGED <<mode, input, arg, boardRef, limit, result, op, calls, first, genVars>>

\* count_solutions returns self.count
CountReturn ==
  /\ mode = "solver" /\ pc = "count_ret" /\ stack = <<>>
  /\ Finished(RetInt(count))
  /\ UNCHANGED <<mode, input, arg, heap, boardRef, stack, count, limit, op, genVars>>

NextSolver ==
  \/ CallSolve
  \/ SolveEnter
  \/ SolveBacktrack
  \/ SolveUnwind
  \/ SolveReturn
  \/ CallCount
  \/ CountEnter
  \/ CountBacktrack
  \/ CountReturn

SolverSpec == InitSolver /\ [][NextSolver]_vars

(***************************************************************************)
(* random.  The stream is a Lehmer generator; which stream a run draws     *)
(* from is decided by the seed chosen at construction.                     *)
(***************************************************************************)
NextRng(x) == (75 * x) % 65537

\* the value in 0 .. n-1 drawn in stream state x (the stream moves to NextRng(x))
RandBelow(x, n) == NextRng(x) % n

Swap(seq, i, j) == [seq EXCEPT ![i] = seq[j], ![j] = seq[i]]

\* random.shuffle: for i in reversed(range(1, len)): j = randbelow(i + 1); swap
RECURSIVE ShuffleLoop(_, _, _)
ShuffleLoop(x, seq, i) ==
  IF i < 1 THEN [nums |-> seq, rng |-> x]
  ELSE ShuffleLoop(NextRng(x), Swap(seq, i + 1, RandBelow(x, i + 1) + 1), i - 1)

Shuffle(x, seq) == ShuffleLoop(x, seq, Len(seq) - 1)

SeedOf(k) == 6 + k

Seeds == {SeedOf(k) : k \in 1 .. MaxSeeds}

(***************************************************************************)
(* SudokuGenerator                                                         *)
(***************************************************************************)
REMOVALS == [Easy |-> 36, Medium |-> 46, Hard |-> 54]

DifficultyArgs == Difficulties \cup {"Expert"}

\* faulty variant of EffectiveDifficulty: the fallback is the first key
EffectiveDifficultyFirstKey(d) == IF d \in DOMAIN REMOVALS THEN d ELSE "Easy"

\* difficulty if difficulty in self.REMOVALS else "Medium"
EffectiveDifficulty(d) == IF d \in DOMAIN REMOVALS THEN d ELSE "Medium"

\* SudokuGenerator.__init__ (ai_model only feeds _estimate_difficulty, whose
\* result generate() discards)
InitGenerator(seeds, args) ==
  /\ mode = "gen"
  /\ pc = "gen_idle"
  /\ heap = [ref \in Refs |-> EmptyGrid]
  /\ boardRef = "full"
  /\ stack = <<>>
  /\ count = 0
  /\ limit = 2
  /\ result = Pending
  /\ op = NoCall
  /\ calls = 0
  /\ first = [op |-> NoCall, result |-> Pending]
  /\ difficultyArg \in args
  /\ difficulty = EffectiveDifficulty(difficultyArg)
  /\ rng \in seeds
  /\ removals = 0 /\ pick = <<0, 0>> /\ backup = 0 /\ iters = 0 /\ rejected = {}
  /\ input = EmptyGrid
  /\ arg = <<0, 0, 0>>

InitGen == InitGenerator(Seeds, DifficultyArgs)

solverVars == <<calls, first>>

\* generate() calls _generate_full(): an empty Board, the three diagonal boxes
\* filled with shuffled 1..9, then _fill_board(board) is entered
GenerateFull ==
  /\ mode = "gen" /\ pc = "gen_idle"
  /\ LET s1 == Shuffle(rng, Ascending)
         s2 == Shuffle(s1.rng, Ascending)
         s3 == Shuffle(s2.rng, Ascending)
         vals == <<s1.nums, s2.nums, s3.nums>>
         seeded == [r \in Idx |-> [c \in Idx |->
                      IF r \div 3 = c \div 3
                      THEN vals[(r \div 3) + 1][(r % 3) * 3 + (c % 3) + 1]
                      ELSE 0]]
     IN  /\ heap' = [heap EXCEPT !["full"] = seeded]
         /\ input' = seeded
         /\ rng' = s3.rng
  /\ boardRef' = "full"
  /\ stack' = <<>>
  /\ op' = [name |-> "generate", limit |-> 0]
  /\ pc' = "fill"
  /\ UNCHANGED <<mode, arg, count, limit, result, solverVars, difficultyArg, difficulty,
                 removals, pick, backup, iters, rejected>>

\* one invocation of _fill_board, up to its recursive call or its return
FillEnter ==
  /\ pc = "fill"
  /\ LET e == FindEmpty(Board)
     IN  IF e = None
         THEN /\ pc' = "fill_true"
              /\ UNCHANGED <<heap, stack, rng>>
         ELSE LET sh == Shuffle(rng, Ascending)
                  j == NextValid(Board, e[1], e[2], sh.nums, 1)
              IN  /\ rng' = sh.rng
                  /\ IF j > Len(sh.nums)
                     THEN /\ pc' = "fill_false"
                          /\ UNCHANGED <<heap, stack>>
                     ELSE /\ heap' = [heap EXCEPT ![boardRef] = Set(Board, e[1], e[2], sh.nums[j])]
                          /\ stack' = Append(stack, [r |-> e[1], c |-> e[2], nums |-> sh.nums, i |-> j])
                          /\ pc' = "fill"
  /\ UNCHANGED <<mode, input, arg, boardRef, count, limit, result, op, solverVars, difficultyArg,
                 difficulty, removals, pick, backup, iters, rejected>>

\* the recursive call returned False: clear the cell, go on with the next candidate
FillBacktrack ==
  /\ pc = "fill_false" /\ stack # <<>>
  /\ LET f == Top
         b1 == Clear(Board, f.r, f.c)
         j == NextValid(b1, f.r, f.c, f.nums, f.i + 1)
     IN  IF j > Len(f.nums)
         THEN /\ heap' = [heap EXCEPT ![boardRef] = b1]
              /\ stack' = Pop
              /\ pc' = "fill_false"
         ELSE /\ heap' = [heap EXCEPT ![boardRef] = Set(b1, f.r, f.c, f.nums[j])]
              /\ stack' = [stack EXCEPT ![Len(stack)].i = j]
              /\ pc' = "fill"
  /\ UNCHANGED <<mode, input, arg, boardRef, count, limit, result, op, solverVars, genVars>>

\* the recursive call returned True: so does the caller
FillUnwind ==
  /\ pc = "fill_true" /\ stack # <<>>
  /\ stack' = Pop
  /\ UNCHANGED <<mode, input, arg, pc, heap, boardRef, count, limit, result, op, solverVars, genVars>>

\* _fill_board has returned to _generate_full, which drops its result and
\* returns the board; generate() reads the removal count, copies the board
\* and enters _unique_remove
FillReturn ==
  /\ pc \in {"fill_true", "fill_false"} /\ stack = <<>>
  /\ removals' = REMOVALS[difficulty]
  /\ LET cp == BoardCopy(heap, "full", "puzzle")
     IN  heap' = cp.heap /\ boardRef' = cp.ref
  /\ pc' = "remove"
  /\ UNCHANGED <<mode, input, arg, stack, count, limit, result, op, solverVars, difficultyArg,
                 difficulty, rng, pick, backup, iters, rejected>>

\* _count run to its return, in three nested rounds of at most 128 steps
\* (a search of more than 128^3 steps is not followed)
RECURSIVE CountRun1(_, _, _)
CountRun1(cfg, L, fuel) ==
  IF fuel = 0 \/ CountFinished(cfg) THEN cfg
  ELSE CountRun1(CountStep(cfg, L), L, fuel - 1)

RECURSIVE CountRun2(_, _, _)
CountRun2(cfg, L, fuel) ==
  IF fuel = 0 \/ CountFinished(cfg) THEN cfg
  ELSE CountRun2(CountRun1(cfg, L, 128), L, fuel - 1)

RECURSIVE CountRun3(_, _, _)
CountRun3(cfg, L, fuel) ==
  IF fuel = 0 \/ CountFinished(cfg) THEN cfg
  ELSE CountRun3(CountRun2(cfg, L, 128), L, fuel - 1)

\* CountingSolver(g).count_solutions(L), as the configuration _count ends in
CountSolutions(g, L) ==
  CountRun3([pc |-> "count", board |-> g, stack |-> <<>>, count |-> 0], L, 128)

\* faulty variant of Accepted: any solvable board is accepted
AcceptedAnySolution(n) == n >= 1

\* solver.count_solutions(limit=2) == 1
Accepted(n) == n = 1

\* one iteration of the while loop of _unique_remove
RemoveIter ==
  /\ pc = "remove" /\ removals > 0 /\ iters < MaxIters
  /\ LET r == RandBelow(rng, 9)
         c == RandBelow(NextRng(rng), 9)
         puzzle == heap[boardRef]
     IN  /\ rng' = NextRng(NextRng(rng))
         /\ pick' = <<r, c>>
         /\ iters' = iters + 1
         /\ IF Get(puzzle, r, c) = 0
            THEN UNCHANGED <<heap, count, backup, removals, rejected>>
            ELSE LET blanked == Set(puzzle, r, c, 0)
                     end == CountSolutions(blanked, 2)
                     n == end.count
                 IN  /\ CountFinished(end)
                     /\ backup' = Get(puzzle, r, c)
                     /\ count' = n
                     /\ IF Accepted(n)
                        THEN /\ removals' = removals - 1
                             /\ heap' = [heap EXCEPT ![boardRef] = blanked]
                             /\ rejected' = {}
                        ELSE /\ removals' = removals
                             /\ heap' = [heap EXCEPT ![boardRef] = Set(blanked, r, c, backup')]
                             /\ rejected' = rejected \cup {<<r, c>>}
  /\ UNCHANGED <<mode, input, arg, pc, boardRef, stack, limit, result, op, solverVars,
                 difficultyArg, difficulty>>

\* the loop ends; generate() returns board.as_list()
GenerateReturn ==
  /\ pc = "remove" /\ removals = 0
  /\ result' = RetGrid(heap[boardRef])
  /\ pc' = "gen_done"
  /\ UNCHANGED <<mode, input, arg, heap, boardRef, stack, count, limit, op, solverVars, genVars>>

\* the caller checks the puzzle: CountingSolver(puzzle).count_solutions(limit=2)
CheckPuzzle ==
  /\ pc = "gen_done"
  /\ op' = [name |-> "count_solutions", limit |-> 2]
  /\ LET end == CountSolutions(result.grid, 2)
     IN  /\ CountFinished(end)
         /\ count' = end.count
  /\ pc' = "gen_checked"
  /\ UNCHANGED <<mode, input, arg, heap, boardRef, stack, limit, result, solverVars, genVars>>

NextGen ==
  \/ GenerateFull
  \/ FillEnter
  \/ FillBacktrack
  \/ FillUnwind
  \/ FillReturn
  \/ RemoveIter
  \/ GenerateReturn
  \/ CheckPuzzle

GenSpec == InitGen /\ [][NextGen]_vars

\* _generate_full alone, on more streams
FillSeeds == {k : k \in 1 .. MaxFillSeeds}

InitFill == InitGenerator(FillSeeds, {"Medium"})

NextFill ==
  \/ GenerateFull
  \/ FillEnter
  \/ FillBacktrack
  \/ FillUnwind
  \/ FillReturn

FillSpec == InitFill /\ [][NextFill]_vars

\* a stream on which the Hard removal loop runs into a puzzle it cannot reduce
InitLong == InitGenerator({24188}, DifficultyArgs)

LongSpec == InitLong /\ [][NextGen]_vars

\* the three backtracking searches side by side: a solver session on an input
\* grid, or a generator filling its seeded board
InitSearch == InitSolver \/ InitGenerator(Seeds, {"Medium"})

NextSearch ==
  \/ CallSolve
  \/ SolveEnter
  \/ SolveBacktrack
  \/ SolveUnwind
  \/ SolveReturn
  \/ CallCount
  \/ CountEnter
  \/ CountBacktrack
  \/ CountReturn
  \/ GenerateFull
  \/ FillEnter
  \/ FillBacktrack
  \/ FillUnwind
  \/ FillReturn

SearchSpec == InitSearch /\ [][NextSearch]_vars

(***************************************************************************)
(* Board.is_valid called on a Board object.  The boards are sparse grids   *)
(* (clues in a few cells, duplicates included) and the solved grid Base    *)
(* with pool cells blanked; the call is made for every cell and value.     *)
(***************************************************************************)
ClueSeq ==
  << <<4, 4>>, <<4, 7>>, <<1, 4>>, <<3, 5>>, <<7, 7>> >>

ClueCells == {ClueSeq[i] : i \in 1 .. MaxClueCells}

SparseGrids ==
  {[r \in Idx |-> [c \in Idx |-> IF <<r, c>> \in ClueCells THEN f[<<r, c>>] ELSE 0]] :
     f \in [ClueCells -> 0 .. MaxValue]}

BoardGrids == SparseGrids \cup {Blanked(Base, S) : S \in SUBSET PoolCells}

\* Board.__init__(grid): the object gets its own copy of the grid
InitBoard ==
  /\ mode = "board"
  /\ pc = "board_idle"
  /\ \E g \in BoardGrids :
       LET h0 == [ref \in Refs |-> IF ref = "caller" THEN g ELSE EmptyGrid]
           cp == BoardCopy(h0, "caller", "work")
       IN  /\ heap = cp.heap
           /\ boardRef = cp.ref
  /\ stack = <<>>
  /\ count = 0
  /\ limit = 2
  /\ result = Pending
  /\ op = NoCall
  /\ calls = 0
  /\ first = [op |-> NoCall, result |-> Pending]
  /\ difficultyArg = "" /\ difficulty = "" /\ rng = 0
  /\ removals = 0 /\ pick = <<0, 0>> /\ backup = 0 /\ iters = 0 /\ rejected = {}
  /\ input = EmptyGrid
  /\ arg = <<0, 0, 0>>

\* board.is_valid(r, c, v) is called and returns
CallIsValid ==
  /\ mode = "board" /\ pc = "board_idle"
  /\ \E r \in Idx : \E c \in Idx : \E v \in 1 .. 9 :
       /\ arg' = <<r, c, v>>
       /\ result' = RetBool(IsValid(Board, r, c, v))
  /\ op' = [name |-> "is_valid", limit |-> 0]
  /\ pc' = "board_ret"
  /\ UNCHANGED <<mode, input, heap, boardRef, stack, count, limit, calls, first, genVars>>

\* the caller has used the returned value and is ready for another call
IsValidReturn ==
  /\ mode = "board" /\ pc = "board_ret"
  /\ arg' = <<0, 0, 0>>
  /\ result' = Pending
  /\ op' = NoCall
  /\ pc' = "board_idle"
  /\ UNCHANGED <<mode, input, heap, boardRef, stack, count, limit, calls, first, genVars>>

NextBoard ==
  \/ CallIsValid
  \/ IsValidReturn

BoardSpec == InitBoard /\ [][NextBoard]_vars

(***************************************************************************)
(* The rules of Sudoku, stated on grids without reference to the search.   *)
(***************************************************************************)
Cells == Idx \X Idx

SameUnit(p, q) ==
  /\ p # q
  /\ \/ p[1] = q[1]
     \/ p[2] = q[2]
     \/ (p[1] \div 3 = q[1] \div 3 /\ p[2] \div 3 = q[2] \div 3)

Peers(p) == {q \in Cells : SameUnit(p, q)}

\* no row, column or box holds the same nonzero value twice
NoDuplicate(g) ==
  /\ \A r \in Idx :
       Cardinality(RowValues(g, r) \ {0}) = Cardinality({c \in Idx : g[r][c] # 0})
  /\ \A c \in Idx :
       Cardinality(ColValues(g, c) \ {0}) = Cardinality({r \in Idx : g[r][c] # 0})
  /\ \A br \in {0, 3, 6} : \A bc \in {0, 3, 6} :
       Cardinality(BoxValues(g, br, bc) \ {0}) =
         Cardinality({p \in (br .. br + 2) \X (bc .. bc + 2) : g[p[1]][p[2]] # 0})

Blanks(g) == {p \in Cells : g[p[1]][p[2]] = 0}

NumClues(g) == Cardinality(Cells \ Blanks(g))

\* g is f with some blank cells of f filled in
Extends(g, f) == \A p \in Cells : f[p[1]][p[2]] # 0 => g[p[1]][p[2]] = f[p[1]][p[2]]

\* the valid completions of g: the grids without a blank and without a
\* duplicate that agree with g on its clues
RECURSIVE Completions(_)
Completions(g) ==
  IF Blanks(g) = {}
  THEN IF NoDuplicate(g) THEN {g} ELSE {}
  ELSE LET p == CHOOSE p \in Blanks(g) : TRUE
           free == {v \in 1 .. 9 : \A q \in Peers(p) : g[q[1]][q[2]] # v}
       IN  UNION {Completions(Set(g, p[1], p[2], v)) : v \in free}

Min(a, b) == IF a <= b THEN a ELSE b

\* a solve() call on the caller's grid has returned
SolveDone == mode = "solver" /\ pc = "idle" /\ calls > 0 /\ op.name = "solve"

\* a count_solutions() call on the caller's grid has returned
CountDone == mode = "solver" /\ pc = "idle" /\ calls > 0 /\ op.name = "count_solutions"

(***************************************************************************)
(* C1: for every grid that has at least one valid completion, solve()      *)
(* returns a grid (not None) without a blank cell, equal to the input on   *)
(* every clue, and without a duplicate in any row, column or box.          *)
(***************************************************************************)
C1_SolveFindsCompletion ==
  (SolveDone /\ Completions(heap["caller"]) # {}) =>
    /\ result.tag = "grid"
    /\ Blanks(result.grid) = {}
    /\ Extends(result.grid, heap["caller"])
    /\ NoDuplicate(result.grid)

\* solve() has returned on a grid with four blanks and two completions
C1_Witness ==
  /\ SolveDone
  /\ result.tag = "grid"
  /\ Cardinality(Blanks(heap["caller"])) = 4
  /\ Cardinality(Completions(heap["caller"])) = 2

(***************************************************************************)
(* C2 (as claimed): whenever the clues of the input grid hold the same     *)
(* value twice in a row, column or box, solve() returns None.              *)
(***************************************************************************)
C2_DuplicateClueGivesNone ==
  (SolveDone /\ ~NoDuplicate(heap["caller"])) => result.tag = "None"

(***************************************************************************)
(* C5: for every grid whose clues hold no duplicate and every limit L,     *)
(* count_solutions(L) returns min(N, L), N the number of valid completions.*)
(***************************************************************************)
C5_CountIsMinOfCompletionsAndLimit ==
  (CountDone /\ NoDuplicate(heap["caller"])) =>
    /\ result.tag = "int"
    /\ result.n = Min(Cardinality(Completions(heap["caller"])), op.limit)

\* count_solutions(1) has returned 1 on a grid with two completions
C5_Witness ==
  /\ CountDone
  /\ op.limit = 1
  /\ result.n = 1
  /\ NoDuplicate(heap["caller"])
  /\ Cardinality(Completions(heap["caller"])) = 2

(***************************************************************************)
(* C6: solve() and count_solutions() never modify the caller's grid nor    *)
(* the solver's original board, and a repeated call on the same solver     *)
(* object returns what the first such call returned.                       *)
(***************************************************************************)
C6_OriginalUntouchedAndRepeatable ==
  /\ [][/\ heap'["caller"] = heap["caller"]
        /\ heap'["original"] = heap["original"]]_vars
  /\ []((mode = "solver" /\ pc = "idle" /\ calls > 1 /\ op = first.op) => result = first.result)

\* a second solve() on the same object has returned a grid for an input with blanks
C6_Witness ==
  /\ SolveDone
  /\ calls = 2
  /\ first.op = op
  /\ result.tag = "grid"
  /\ Blanks(heap["caller"]) # {}

C3_GeneratedPuzzleIsUnique == pc = "gen_checked" => count = 1

\* a Hard puzzle has been generated and checked
C3_Witness == pc = "gen_checked" /\ difficulty = "Hard" /\ NumClues(result.grid) < 81

(***************************************************************************)
(* C4: the grid generate() returns has 81 - REMOVALS[d] clues (45 for      *)
(* Easy, 35 for Medium, 27 for Hard), and a difficulty that is no key of   *)
(* REMOVALS gives what Medium gives (35 clues).                            *)
(***************************************************************************)
C4_ClueCountMatchesDifficulty ==
  pc = "gen_done" =>
    /\ result.tag = "grid"
    /\ NumClues(result.grid) =
         81 - REMOVALS[IF difficultyArg \in Difficulties THEN difficultyArg ELSE "Medium"]
    /\ NumClues(result.grid) =
         (CASE difficultyArg = "Easy" -> 45
            [] difficultyArg = "Hard" -> 27
            [] OTHER -> 35)
    /\ difficultyArg \notin Difficulties => difficulty = "Medium"

\* generate() has returned for a difficulty that is not a key of REMOVALS
C4_Witness ==
  /\ pc = "gen_done"
  /\ difficultyArg = "Expert"
  /\ NumClues(result.grid) = 35

(***************************************************************************)
(* C7 (as claimed): the removal loop never is at a puzzle with removals    *)
(* still to make in which blanking any remaining clue gives a solution     *)
(* count other than 1 (from such a puzzle the loop cannot terminate).      *)
(***************************************************************************)
C7_RemovalLoopNeverStuck ==
  ~(/\ pc = "remove"
    /\ removals > 0
    /\ \A p \in Cells : heap["puzzle"][p[1]][p[2]] # 0 => p \in rejected)

(***************************************************************************)
(* C8: an iteration of the removal loop that picks a nonblank cell leaves  *)
(* the board and the counter as they were when the solution count of the   *)
(* board with that cell blanked is not 1, and blanks that one cell and     *)
(* decrements the counter by 1 when it is 1; an iteration that picks a     *)
(* blank cell changes neither.                                             *)
(***************************************************************************)
C8_RemovalRevertedUnlessUnique ==
  [][(pc = "remove" /\ iters' = iters + 1) =>
       LET r == pick'[1]
           c == pick'[2]
           before == heap["puzzle"]
           after == heap'["puzzle"]
       IN  IF before[r][c] = 0
           THEN after = before /\ removals' = removals
           ELSE IF count' # 1
                THEN after = before /\ removals' = removals
                ELSE after = Set(before, r, c, 0) /\ removals' = removals - 1]_vars

\* the last iteration picked a clue, found two solutions and put the clue back
C8_Witness ==
  /\ pc = "remove"
  /\ iters > 0
  /\ count = 2
  /\ heap["puzzle"][pick[1]][pick[2]] = backup
  /\ backup # 0

(***************************************************************************)
(* C10: _fill_board never returns False on a diagonally seeded board, and  *)
(* the board _generate_full returns has no blank cell and no duplicate in  *)
(* any row, column or box.                                                 *)
(***************************************************************************)
C10_FullGridIsValid ==
  (pc \in {"fill_true", "fill_false"} /\ stack = <<>>) =>
    /\ pc = "fill_true"
    /\ Blanks(heap["full"]) = {}
    /\ NoDuplicate(heap["full"])

\* _fill_board has returned to _generate_full with every cell filled
C10_Witness ==
  /\ pc = "fill_true"
  /\ stack = <<>>
  /\ Blanks(heap["full"]) = {}

\* _solve, _count or _fill_board is running, or has just returned to its caller
Searching ==
  pc \in {"solve", "solve_true", "solve_false", "count", "count_ret",
          "fill", "fill_true", "fill_false"}

(***************************************************************************)
(* C11: during a backtracking search (_solve, _count, _fill_board) that    *)
(* was started on a grid whose clues contain no duplicate, the working     *)
(* board never holds the same nonzero value twice in a row, column or box, *)
(* and every cell that was nonzero in the grid the search started on still *)
(* holds that value: only cells blank at the start are set or cleared.     *)
(***************************************************************************)
C11_SearchKeepsBoardValid ==
  Searching =>
    \/ /\ Extends(Board, input)
       /\ NoDuplicate(Board)
    \/ ~NoDuplicate(input)

\* _count has found one completion of a duplicate-free grid with clues and
\* blanks, and is backtracking over cells it placed
C11_Witness ==
  /\ pc = "count_ret"
  /\ stack # <<>>
  /\ count = 1
  /\ NoDuplicate(input)
  /\ Blanks(input) # {}
  /\ Blanks(input) # Cells
  /\ Blanks(Board) # Blanks(input)

\* board.is_valid(r, c, v) has returned
IsValidDone == mode = "board" /\ pc = "board_ret"

\* some cell other than p in the row, column or box of p holds v
PeerHolds(g, p, v) == \E q \in Peers(p) : g[q[1]][q[2]] = v

(***************************************************************************)
(* C12 (as claimed): for every board, cell (r, c) and v in 1..9,           *)
(* is_valid(r, c, v) is true iff placing v at (r, c) introduces no         *)
(* duplicate in the row, column or box, that is iff no other cell of the   *)
(* three holds v; the value currently stored at (r, c) itself plays no     *)
(* part in the result.                                                     *)
(***************************************************************************)
C12_IsValidIgnoresOwnCell ==
  IsValidDone =>
    LET p == <<arg[1], arg[2]>>
    IN  /\ (result.n = 1) <=> ~PeerHolds(Board, p, arg[3])
        /\ \A w \in 0 .. 9 :
             IsValid(Set(Board, p[1], p[2], w), p[1], p[2], arg[3]) = (result.n = 1)

(***************************************************************************)
(* C12 (amended): is_valid(r, c, v) is true iff v occurs nowhere in the    *)
(* row, the column and the box of (r, c), the cell (r, c) itself included. *)
(* So when (r, c) does not hold v (an empty cell in particular) it is true *)
(* iff no other cell of the three holds v, and when (r, c) already holds v *)
(* it is false.                                                            *)
(***************************************************************************)
C12_IsValidCountsOwnCell ==
  IsValidDone =>
    LET p == <<arg[1], arg[2]>>
    IN  IF Board[p[1]][p[2]] = arg[3]
        THEN result.n = 0
        ELSE (result.n = 1) <=> ~PeerHolds(Board, p, arg[3])

\* is_valid returned False for the value the cell itself holds, which no
\* other cell of its row, column or box holds
C12_Witness ==
  /\ IsValidDone
  /\ Board[arg[1]][arg[2]] = arg[3]
  /\ ~PeerHolds(Board, <<arg[1], arg[2]>>, arg[3])
  /\ result.n = 0
====
